---- MODULE Spec2Model ----
(***************************************************************************)
(* Live Run Monitor of the ML LearnLab frontend: the three live pages      *)
(* (AnalyzeData, CleanData, Training), each with its snapshot loader       *)
(* effect, its WebSocket effect and the handlers that effect registers on  *)
(* the shared socket.io client (lib/socket.js for Analyze and Clean,       *)
(* lib/socket_enhanced.js for Training).                                   *)
(*                                                                         *)
(* One behaviour follows one mounted page instance (page is fixed by       *)
(* Init).  React is modelled by what it does to the page's code: state     *)
(* setters change the state at once, and the commit that follows (render   *)
(* plus passive effects) is the separate step WebSocketEffect, so socket   *)
(* events that arrive between a state change and the commit are handled    *)
(* by the closures of the previous commit.                                 *)
(*                                                                         *)
(* Training.jsx uses the identifier `socket` without importing it; the     *)
(* model binds it to the socket of lib/socket_enhanced.js, the module the  *)
(* page imports its socket functions from.                                 *)
(***************************************************************************)
EXTENDS Integers, Sequences, FiniteSets, TLC

NULL == "null"
\* null / undefined of a numeric field (step labels and metric values are >= 0)
Nil == 0 - 1

(* ---- bounds of the model ------------------------------------------- *)
\* POST /clean requests that may be in flight at once
MaxCleanPosts == 1
\* join promises of socket_enhanced that may be unsettled at once
MaxJoinPending == 1
\* step labels the server's metric events carry: 1..MaxLabel
MaxLabel == 2
\* metrics fed beyond maxPoints in the eviction specification
MaxExtra == 3
\* outcome notifications (toasts) counted per page lifetime
MaxToasts == 2
\* listeners the wrapper calls may leave on the socket
MaxAdded == 4
\* packets the send buffer may hold (wrapper-level specification)
MaxBuffer == 2
\* entries the log list may hold (log specification)
MaxLogs == 3
\* the largest step count a progress event carries
MaxStep == 2
MaxClicks == 2
MaxMe == 2

(* ---- program constants --------------------------------------------- *)
maxPoints == 150

Pages == {"Analyze", "Clean", "Training"}

\* the run statuses the backend reports to a page (snapshot status and
\* status_update), a representative set for the stage the page shows
ServerStatus(p) ==
    CASE p = "Analyze"  -> {"PENDING", "ANALYZING", "SUCCESS", "ANALYSIS_FAILED", "CANCELLED"}
      [] p = "Clean"    -> {"ANALYZING", "SUCCESS", "CLEANING", "CLEANING_SUCCESS",
                            "CLEANING_FAILED", "FAILED"}
      [] p = "Training" -> {"TRAINING", "SUCCESS", "FAILED", "CANCELLED", "CLEANING_FAILED"}

\* the terminal partition of RunStatus (design specification, section 3)
Terminal ==
    {"SUCCESS", "FAILED", "ANALYSIS_FAILED", "CLEANING_FAILED",
     "CLEANING_SUCCESS", "CANCELLED", "FETCH_FAILED"}

VARIABLES
    page,               \* which page component this instance is
    pc,                 \* "mounting" | "live" | "unmounted"
    isMountedRef,       \* isMountedRef.current
    status,             \* runStatus (Analyze, Training) / status (Clean)
    isFetchingDetails,  \* isFetchingDetails / isLoadingDetails
    fetchError,         \* fetchError is set (Analyze, Training)
    runDetails,         \* NULL or the status field of the stored snapshot
    snapshotResults,    \* Analyze: runDetails.analysis_results
    taskType,           \* Training: NULL | "classification" | "regression"
    logs,               \* the log list (the type of each entry)
    analysisResults,    \* Analyze: a payload (NullPayload while null)
    cleaningReport,     \* Clean: a payload (NullPayload while null)
    cleanedPreview,     \* Clean: NULL | "snapshot" | "event"
    metrics,            \* Training: the last metric event (setMetrics)
    metricData,         \* Training: the two chart series
    progress,           \* Training: the progress record (a field is Nil while
                        \* undefined)
    cleaningStartedRef, \* Clean: cleaningStartedRef.current
    toastShownRef,      \* Analyze, Clean: toastShownRef.current
    toasts,             \* toast.success / toast.error calls that announce the run's
                        \* outcome or a failed request, while the page is mounted
    rendered,           \* the state captured by the last commit
    listeners,          \* closures of the page handlers registered on the socket
    connected,          \* socket.connected
    active,             \* the client is (re)connecting or connected
    sendBuffer,         \* packets emitted while disconnected
    inRoom,             \* server side: this socket is in the run's room
    received,           \* server side: the last room packet this socket sent
    joinPending,        \* socket_enhanced: unsettled joinTrainingRoom promises
    token,              \* localStorage holds access_token
    gets,               \* GET /training/run/:id requests in flight
    posts,              \* POST .../analyze requests in flight
    cleanPosts,         \* POST .../clean requests in flight
    analyzePosts,       \* POST .../analyze requests issued so far
    lib,                \* the wrapper calls of the wrapper-level specification:
                        \*   variant: which socket wrapper module is called
                        \*   transports: engine connections open or opening
                        \*   added: listeners the wrapper's calls left on the socket
                        \*   outcome: what the last call gave its caller
                        \* (the page specifications do not track them)
    details,            \* Training: the snapshot the GET in flight responds with
                        \* (task-type specification; NoDetails elsewhere)
    prog,               \* Training: the last training_progress event
                        \* (progress specification; NoProgress elsewhere)
    auth,               \* the authentication store and what it keeps beside the
                        \* token (authentication specification; NoAuth elsewhere):
                        \*   storedUser: localStorage holds user
                        \*   accessToken, user: the store's fields are set
                        \*   isAuthenticated, isLoading: the store's flags
                        \*   me: GET /auth/me requests in flight
                        \*   leaving: window.location.href has been assigned
    hist,               \* history of the run, read by the properties only:
                        \*   fetchFailed: a snapshot fetch of this page has failed
                        \*   earlyLabels: labels of the metrics the server emitted
                        \*                while the snapshot fetch was unresolved
                        \*   retried: status CLEANING was entered by
                        \*            handleStartCleaning from CLEANING_FAILED
                        \*   expected: (log specification) the data of the last
                        \*            result event the page's handler was given,
                        \*            the snapshot's object before the first,
                        \*            null after a reset
    lastOp              \* the operation that produced this state

pageVars == <<status, isFetchingDetails, fetchError, runDetails, snapshotResults,
             taskType>>
accVars  == <<logs, analysisResults, cleaningReport, cleanedPreview, metrics,
             metricData, progress, cleaningStartedRef, toastShownRef, toasts>>
sockVars == <<connected, active, sendBuffer, inRoom, received, joinPending>>
reqVars  == <<gets, posts, cleanPosts, analyzePosts>>
\* the variables of the specifications of single functions
otherVars == <<details, prog, auth>>

vars == <<page, pc, isMountedRef, status, isFetchingDetails, fetchError,
          runDetails, snapshotResults, taskType, logs, analysisResults, cleaningReport,
          cleanedPreview, metrics, metricData, progress, cleaningStartedRef,
          toastShownRef, toasts, rendered, listeners, connected, active, sendBuffer,
          inRoom, received,
          joinPending, token, gets, posts, cleanPosts, analyzePosts, lib, details, prog,
          auth, hist,
          lastOp>>

Op(name, arg) == [op |-> name, arg |-> arg]

(* ---- result payloads -------------------------------------------------- *)
\* an analysis_results / cleaning_report object, by two of its fields (Nil
\* where the object lacks the field); summary stands for any field of the
\* object, preview_cleaned_data is the one CleanData.jsx reads
Payload(a, b) == [isNull |-> FALSE, summary |-> a, preview_cleaned_data |-> b]

\* null / undefined
NullPayload == [isNull |-> TRUE, summary |-> Nil, preview_cleaned_data |-> Nil]

\* the object the run snapshot carries, when it carries one
SnapshotPayload == Payload(0, 0)

\* JavaScript truthiness of a payload: every object is truthy, {} included
Truthy(d) == ~d.isNull

(* ---- chart series --------------------------------------------------- *)
\* Training.jsx initialChartData, for primary and secondary at once: the
\* shared shape is labels plus the Train and Val data of each series.
initialChartData ==
    [pLabels |-> <<>>, pTrain |-> <<>>, pVal |-> <<>>,
     sLabels |-> <<>>, sTrain |-> <<>>, sVal |-> <<>>]

(* ---- the socket.io client and the server's room --------------------- *)
Sock == [connected |-> connected, active |-> active,
         sendBuffer |-> sendBuffer, inRoom |-> inRoom, received |-> received]

\* the server handling one packet of this socket: join_room / leave_room
serverReceive(s, pkt) ==
    [s EXCEPT !.inRoom = IF pkt = "join_room" THEN TRUE
                         ELSE IF pkt = "leave_room" THEN FALSE ELSE @,
              !.received = pkt]

\* socket.emit: sent when connected, kept in the send buffer otherwise
emit(s, pkt) ==
    IF s.connected THEN serverReceive(s, pkt)
    ELSE [s EXCEPT !.sendBuffer = Append(@, pkt)]

RECURSIVE flush(_)
\* socket.io on connect: the buffered packets are sent in order
flush(s) ==
    IF s.sendBuffer = <<>> THEN s
    ELSE flush([serverReceive(s, Head(s.sendBuffer))
                  EXCEPT !.sendBuffer = Tail(s.sendBuffer)])

connectSocket(s) ==
    IF s.connected THEN s ELSE [s EXCEPT !.active = TRUE]

\* socket.disconnect() also ends the reconnection and the server drops the
\* socket from its rooms
disconnectSocket(s) ==
    IF s.connected
    THEN [s EXCEPT !.connected = FALSE, !.active = FALSE, !.inRoom = FALSE]
    ELSE s

joinTrainingRoom(s) ==
    IF ~token THEN s ELSE emit(s, "join_room")

\* a leave that emits nothing
leaveTrainingRoom_Skip(s) == s

leaveTrainingRoom(s) == emit(s, "leave_room")

\* the wrapper calls are not tracked
NoLib == [variant |-> "none", transports |-> 0, added |-> 0, outcome |-> "none"]

\* a training_progress event, by the four fields the progress bar reads (Nil
\* for a field the event does not carry)
Progress(epoch, total_epochs, current_step, total_steps) ==
    [epoch |-> epoch, total_epochs |-> total_epochs,
     current_step |-> current_step, total_steps |-> total_steps]

\* no progress event has arrived
NoProgress == Progress(Nil, Nil, Nil, Nil)

\* no snapshot is under examination
NoDetails == [status |-> NULL]

NoAuth == [storedUser |-> FALSE, accessToken |-> FALSE, user |-> FALSE,
           isAuthenticated |-> FALSE, isLoading |-> FALSE, me |-> 0,
           leaving |-> FALSE]

(* ---- what a commit captures ----------------------------------------- *)
Cur == [isFetching |-> isFetchingDetails, fetchError |-> fetchError,
        runDetails |-> runDetails, taskType |-> taskType,
        status |-> status, progress |-> progress]

\* the dependency array of the page's WebSocket effect
Deps(r) ==
    CASE page = "Analyze"  -> <<r.isFetching, r.fetchError, r.status>>
      [] page = "Clean"    -> <<r.isFetching, r.runDetails, r.status>>
      [] page = "Training" -> <<r.isFetching, r.fetchError, r.taskType, r.status>>

\* the guard at the top of the page's WebSocket effect
shouldConnect(r) ==
    CASE page = "Analyze" ->
           /\ ~r.isFetching
           /\ ~r.fetchError
           /\ r.status \notin {"SUCCESS", "FAILED", "ANALYSIS_FAILED",
                               "CLEANING_SUCCESS", "CLEANING_FAILED", "FETCH_FAILED"}
      [] page = "Clean" ->
           /\ ~r.isFetching
           /\ r.runDetails # NULL
           /\ r.status \in {"READY", "CLEANING", "CLEANING_FAILED", "CONNECTING"}
      [] page = "Training" ->
           /\ ~r.isFetching
           /\ ~r.fetchError
           /\ r.taskType # NULL
           /\ r.status \notin {"SUCCESS", "FAILED", "FETCH_FAILED", "CANCELLED"}

\* socket.off(event, handler) of one effect's handlers
removeListener(ls, c) ==
    LET i == CHOOSE k \in 1..Len(ls) : ls[k] = c
    IN  IF \E k \in 1..Len(ls) : ls[k] = c
        THEN SubSeq(ls, 1, i - 1) \o SubSeq(ls, i + 1, Len(ls))
        ELSE ls

(* ---- the state the handlers read and write -------------------------- *)
St == [status |-> status, logs |-> logs, analysisResults |-> analysisResults,
       cleaningReport |-> cleaningReport, cleanedPreview |-> cleanedPreview,
       metrics |-> metrics, metricData |-> metricData, progress |-> progress,
       cleaningStartedRef |-> cleaningStartedRef,
       toastShownRef |-> toastShownRef, toasts |-> toasts,
       sock |-> Sock, joinPending |-> joinPending]

SetSt(st) ==
    /\ status' = st.status
    /\ logs' = st.logs
    /\ analysisResults' = st.analysisResults
    /\ cleaningReport' = st.cleaningReport
    /\ cleanedPreview' = st.cleanedPreview
    /\ metrics' = st.metrics
    /\ metricData' = st.metricData
    /\ progress' = st.progress
    /\ cleaningStartedRef' = st.cleaningStartedRef
    /\ toastShownRef' = st.toastShownRef
    /\ toasts' = st.toasts
    /\ connected' = st.sock.connected
    /\ active' = st.sock.active
    /\ sendBuffer' = st.sock.sendBuffer
    /\ inRoom' = st.sock.inRoom
    /\ received' = st.sock.received
    /\ joinPending' = st.joinPending

SetSock(s) ==
    /\ connected' = s.connected
    /\ active' = s.active
    /\ sendBuffer' = s.sendBuffer
    /\ inRoom' = s.inRoom
    /\ received' = s.received

(* ---- Training.jsx onMetric ------------------------------------------ *)
\* a ?? b
Nullish(a, b) == IF a = Nil THEN b ELSE a

\* Array.prototype.indexOf, 1-based; 0 when absent
IndexOf(seq, x) ==
    IF \E i \in 1..Len(seq) : seq[i] = x
    THEN CHOOSE i \in 1..Len(seq) : seq[i] = x /\ \A j \in 1..(i - 1) : seq[j] # x
    ELSE 0

\* useState({ epoch: 0, total_epochs: 0, ... }): the four fields the progress
\* bar reads; current_step and total_steps are not in the initial object
initialProgress ==
    [epoch |-> 0, total_epochs |-> 0, current_step |-> Nil, total_steps |-> Nil]

\* metric.total_epochs ?? metric.total_estimators ?? metric.total_iterations
\* ?? progress.total_steps ?? 0, for metric events that carry no total
totalSteps(metric, c) == Nullish(c.progress.total_steps, 0)

stepLabel(metric, c) ==
    Nullish(metric.epoch,
      Nullish(metric.estimator,
        Nullish(metric.iteration,
          Nullish(c.progress.current_step, 0))))

\* no eviction: the arrays are returned as they are
evict_Keep(d) == d

RECURSIVE evict(_)
\* while (newPrimary.labels.length > maxPoints) shift every array
evict(d) ==
    IF Len(d.pLabels) > maxPoints
    THEN evict([pLabels |-> Tail(d.pLabels),
                sLabels |-> IF d.sLabels = <<>> THEN <<>> ELSE Tail(d.sLabels),
                pTrain  |-> IF d.pTrain = <<>> THEN <<>> ELSE Tail(d.pTrain),
                pVal    |-> IF d.pVal = <<>> THEN <<>> ELSE Tail(d.pVal),
                sTrain  |-> IF d.sTrain = <<>> THEN <<>> ELSE Tail(d.sTrain),
                sVal    |-> IF d.sVal = <<>> THEN <<>> ELSE Tail(d.sVal)])
    ELSE d

\* an updater that pushes a new point whether or not the label is present
setMetricData_AlwaysPush(prev, metric, currentXValue, tt) ==
    LET isRegression == tt = "regression"
    IN  evict([pLabels |-> Append(prev.pLabels, currentXValue),
               sLabels |-> Append(prev.sLabels, currentXValue),
               pTrain  |-> Append(prev.pTrain,
                             IF isRegression THEN metric.train_r2 ELSE metric.train_accuracy),
               pVal    |-> Append(prev.pVal,
                             IF isRegression THEN metric.val_r2 ELSE metric.val_accuracy),
               sTrain  |-> Append(prev.sTrain,
                             IF isRegression THEN metric.train_rmse ELSE metric.train_loss),
               sVal    |-> Append(prev.sVal,
                             IF isRegression THEN metric.val_rmse ELSE metric.val_loss)])

\* an updater that skips a metric lacking one of the task's four fields
setMetricData_SkipAbsent(prev, metric, currentXValue, tt) ==
    LET isRegression == tt = "regression"
        fields == IF isRegression
                  THEN {metric.train_r2, metric.val_r2, metric.train_rmse, metric.val_rmse}
                  ELSE {metric.train_accuracy, metric.val_accuracy,
                        metric.train_loss, metric.val_loss}
    IN  IF Nil \in fields THEN prev
        ELSE setMetricData_AlwaysPush(prev, metric, currentXValue, tt)

\* an updater whose new points go to the primary series only
setMetricData_PrimaryOnly(prev, metric, currentXValue, tt) ==
    LET isRegression == tt = "regression"
        labelIndex == IndexOf(prev.pLabels, currentXValue)
    IN  IF labelIndex > 0
        THEN [prev EXCEPT !.pTrain[labelIndex] =
                              IF isRegression THEN metric.train_r2 ELSE metric.train_accuracy,
                          !.pVal[labelIndex] =
                              IF isRegression THEN metric.val_r2 ELSE metric.val_accuracy]
        ELSE [prev EXCEPT !.pLabels = Append(@, currentXValue),
                          !.pTrain = Append(@, IF isRegression THEN metric.train_r2
                                               ELSE metric.train_accuracy),
                          !.pVal = Append(@, IF isRegression THEN metric.val_r2
                                             ELSE metric.val_accuracy)]

\* the updater passed to setMetricData
setMetricData(prev, metric, currentXValue, tt) ==
    LET isRegression == tt = "regression"
        trainP == IF isRegression THEN metric.train_r2 ELSE metric.train_accuracy
        valP   == IF isRegression THEN metric.val_r2 ELSE metric.val_accuracy
        trainS == IF isRegression THEN metric.train_rmse ELSE metric.train_loss
        valS   == IF isRegression THEN metric.val_rmse ELSE metric.val_loss
        labelIndex == IndexOf(prev.pLabels, currentXValue)
        put(seq, v) == IF labelIndex <= Len(seq)
                       THEN [seq EXCEPT ![labelIndex] = v]
                       ELSE seq
        next == IF labelIndex > 0
                THEN [prev EXCEPT !.pTrain = put(@, trainP), !.pVal = put(@, valP),
                                  !.sTrain = put(@, trainS), !.sVal = put(@, valS)]
                ELSE [pLabels |-> Append(prev.pLabels, currentXValue),
                      sLabels |-> Append(prev.sLabels, currentXValue),
                      pTrain  |-> Append(prev.pTrain, trainP),
                      pVal    |-> Append(prev.pVal, valP),
                      sTrain  |-> Append(prev.sTrain, trainS),
                      sVal    |-> Append(prev.sVal, valS)]
    IN  evict(next)

onMetric(metric, c, st) ==
    IF ~isMountedRef \/ c.taskType = NULL THEN st
    ELSE LET label == stepLabel(metric, c)
         IN  [st EXCEPT !.metrics = metric,
                        !.progress = [@ EXCEPT !.current_step = label,
                                                !.total_steps = totalSteps(metric, c)],
                        !.metricData = setMetricData(@, metric, label, c.taskType)]

(* ---- Training.jsx onProgress and the progress bar ------------------- *)
\* { ...prev, ...prog }
mergeProgress(prev, p) ==
    [f \in DOMAIN prev |-> IF p[f] # Nil THEN p[f] ELSE prev[f]]

onProgress(p, c, st) ==
    IF ~isMountedRef THEN st
    ELSE [st EXCEPT !.progress = mergeProgress(@, p)]

\* a || b of JavaScript on numbers: b when a is undefined or 0
Or(a, b) == IF a \in {Nil, 0} THEN b ELSE a

\* the dividend and the divisor of the progress bar's width
barCurrent(pr) == Or(pr.epoch, Or(pr.current_step, 0))
barTotal(pr) == Or(pr.total_epochs, Or(pr.total_steps, 1))

(* ---- AnalyzeData.jsx handlers --------------------------------------- *)
Analyze_handleConnect(c, st) ==
    IF ~isMountedRef THEN st
    ELSE [st EXCEPT !.sock = joinTrainingRoom(@)]

Analyze_handleStatusUpdate(update, c, st) ==
    IF ~isMountedRef THEN st
    ELSE LET prevStatus == st.status
             newStatus == update.status
             final == {"SUCCESS", "FAILED", "ANALYSIS_FAILED"}
         IN  [st EXCEPT !.status = IF prevStatus \in final /\ newStatus \notin final
                                   THEN prevStatus ELSE newStatus]

Analyze_handleDisconnect(c, st) ==
    IF ~isMountedRef THEN st
    ELSE IF c.status \notin {"SUCCESS", "FAILED"}
         THEN [st EXCEPT !.status = "CONNECTING"]
         ELSE st

(* ---- CleanData.jsx handlers ----------------------------------------- *)
Clean_onConnect(c, st) ==
    IF ~isMountedRef THEN st
    ELSE [st EXCEPT !.sock = joinTrainingRoom(@),
                    !.status = IF @ = "CONNECTING"
                               THEN (IF c.runDetails = "SUCCESS" THEN "READY"
                                     ELSE c.runDetails)
                               ELSE @]

Clean_onStatusUpdate(update, c, st) ==
    IF ~isMountedRef THEN st
    ELSE LET newStatus == update.status
             currentStatus == st.status
         IN  IF newStatus \in {"CLEANING", "CLEANING_SUCCESS", "CLEANING_FAILED", "FAILED"}
             THEN IF currentStatus \in {"CLEANING_SUCCESS", "CLEANING_FAILED", "FAILED"}
                  THEN st
                  ELSE [st EXCEPT !.status = newStatus,
                                  !.cleaningStartedRef =
                                      IF newStatus = "CLEANING_FAILED" THEN FALSE ELSE @]
             ELSE st

Clean_handleDisconnect(c, st) ==
    IF ~isMountedRef THEN st
    ELSE IF c.status = "CLEANING" THEN [st EXCEPT !.status = "CONNECTING"] ELSE st

(* ---- Training.jsx handlers ------------------------------------------ *)
\* await joinTrainingRoom(runId): without a token the promise rejects at once
\* and the catch sets CONNECTING; otherwise join_room is emitted and the
\* promise stays unsettled until room_joined, room_error or the timeout
Training_onConnect(c, st) ==
    IF ~isMountedRef THEN st
    ELSE IF ~token THEN [st EXCEPT !.status = "CONNECTING"]
    ELSE [st EXCEPT !.sock = joinTrainingRoom(@), !.joinPending = @ + 1]

Training_onDisconnect(c, st) ==
    IF ~isMountedRef THEN st
    ELSE IF c.status \in {"TRAINING", "STARTING"}
         THEN [st EXCEPT !.status = "CONNECTING"]
         ELSE st

\* the statuses for which Training's onStatusUpdate shows a toast
Training_toastStatuses ==
    {"SUCCESS", "FAILED", "ANALYSIS_FAILED", "CLEANING_FAILED", "CANCELLED"}

Training_onStatusUpdate(update, c, st) ==
    IF ~isMountedRef THEN st
    ELSE LET newStatus == update.status
         IN  [st EXCEPT !.status = newStatus,
                        !.toasts = IF newStatus \in Training_toastStatuses
                                   THEN @ + 1 ELSE @]

(* ---- the training_log handlers ---------------------------------------- *)
\* setAnalysisResults(log.data) / setCleaningReport(log.data)
storeResult(prev, data) == data

\* AnalyzeData.jsx handleLog
Analyze_handleLog(log, c, st) ==
    IF ~isMountedRef THEN st
    ELSE [st EXCEPT !.logs = Append(@, log.type),
                    !.analysisResults =
                        IF log.type = "analysis_result" /\ Truthy(log.data)
                        THEN storeResult(@, log.data) ELSE @]

\* CleanData.jsx onLog
Clean_onLog(log, c, st) ==
    IF ~isMountedRef THEN st
    ELSE IF log.type = "cleaning_report" /\ Truthy(log.data)
    THEN [st EXCEPT !.logs = Append(@, log.type),
                    !.cleaningReport = storeResult(@, log.data),
                    !.cleanedPreview = IF log.data.preview_cleaned_data # Nil
                                       THEN "event" ELSE @]
    ELSE IF log.type = "analysis_result" /\ log.key = "preview_cleaned_data"
            /\ Truthy(log.data)
    THEN [st EXCEPT !.logs = Append(@, log.type), !.cleanedPreview = "event"]
    ELSE [st EXCEPT !.logs = Append(@, log.type)]

\* Training.jsx onLog
Training_onLog(log, c, st) ==
    IF ~isMountedRef THEN st
    ELSE [st EXCEPT !.logs = Append(@, log.type)]

(* ---- dispatch of one socket event to the registered handlers -------- *)
Handle(ev, c, st) ==
    CASE ev.name = "connect" ->
           (CASE page = "Analyze"  -> Analyze_handleConnect(c, st)
              [] page = "Clean"    -> Clean_onConnect(c, st)
              [] page = "Training" -> Training_onConnect(c, st))
      [] ev.name = "disconnect" ->
           (CASE page = "Analyze"  -> Analyze_handleDisconnect(c, st)
              [] page = "Clean"    -> Clean_handleDisconnect(c, st)
              [] page = "Training" -> Training_onDisconnect(c, st))
      [] ev.name = "status_update" ->
           (CASE page = "Analyze"  -> Analyze_handleStatusUpdate(ev, c, st)
              [] page = "Clean"    -> Clean_onStatusUpdate(ev, c, st)
              [] page = "Training" -> Training_onStatusUpdate(ev, c, st))
      [] ev.name = "training_log" ->
           (CASE page = "Analyze"  -> Analyze_handleLog(ev, c, st)
              [] page = "Clean"    -> Clean_onLog(ev, c, st)
              [] page = "Training" -> Training_onLog(ev, c, st))
      [] ev.name = "training_progress" ->
           (IF page = "Training" THEN onProgress(ev.progress, c, st) ELSE st)
      [] ev.name = "training_metric" ->
           (IF page = "Training" THEN onMetric(ev.metric, c, st) ELSE st)
      [] OTHER -> st

RECURSIVE Fire(_, _, _)
\* the socket calls every listener registered for the event, in order
Fire(ev, ls, st) ==
    IF ls = <<>> THEN st
    ELSE Fire(ev, Tail(ls), Handle(ev, Head(ls), st))

(* ---- metric events --------------------------------------------------- *)
Metric(epoch, estimator, iteration, a, b) ==
    [epoch |-> epoch, estimator |-> estimator, iteration |-> iteration,
     train_accuracy |-> a, val_accuracy |-> b, train_loss |-> b, val_loss |-> a,
     train_r2 |-> b, val_r2 |-> a, train_rmse |-> a, val_rmse |-> b]

\* useState({}): no metric field is defined
NoMetric == Metric(Nil, Nil, Nil, Nil, Nil)

\* the metric events of the page-lifecycle specification: an epoch, no values
LifecycleMetrics == { Metric(1, Nil, Nil, Nil, Nil) }

\* the task type the snapshots of the page-lifecycle specification resolve to
LifecycleTaskTypes == {"classification"}

(* ---- construction ---------------------------------------------------- *)
\* the page after its first commit: state initialisers, the loader effect has
\* issued its GET, the WebSocket effect has returned at its guard
Init ==
    /\ page \in Pages
    /\ pc = "live"
    /\ isMountedRef = TRUE
    /\ status = "LOADING_DETAILS"
    /\ isFetchingDetails = TRUE
    /\ fetchError = FALSE
    /\ runDetails = NULL
    /\ snapshotResults = NullPayload
    /\ taskType = NULL
    /\ logs = <<>>
    /\ analysisResults = NullPayload
    /\ cleaningReport = NullPayload
    /\ cleanedPreview = NULL
    /\ metrics = NoMetric
    /\ metricData = initialChartData
    /\ progress = initialProgress
    /\ cleaningStartedRef = FALSE
    /\ toastShownRef = [success |-> FALSE, error |-> FALSE]
    /\ toasts = 0
    /\ rendered = [isFetching |-> TRUE, fetchError |-> FALSE, runDetails |-> NULL,
                   taskType |-> NULL, status |-> "LOADING_DETAILS", progress |-> initialProgress]
    /\ listeners = <<>>
    /\ connected = FALSE
    /\ active = FALSE
    /\ sendBuffer = <<>>
    /\ inRoom = FALSE
    /\ received = ""
    /\ joinPending = 0
    /\ token = TRUE
    /\ gets = 1
    /\ posts = 0
    /\ cleanPosts = 0
    /\ analyzePosts = 0
    /\ lib = NoLib
    /\ details = NoDetails
    /\ prog = NoProgress
    /\ auth = NoAuth
    /\ hist = [fetchFailed |-> FALSE, earlyLabels |-> {}, retried |-> FALSE,
               expected |-> NullPayload]
    /\ lastOp = Op("mount", "")

Live == pc = "live"

(* ---- the loader effect ----------------------------------------------- *)
\* React.StrictMode (main.jsx) runs every effect of a freshly mounted
\* component, its cleanup, and the effect again: the loader's cleanup and a
\* second run of its body, right after the first commit
StrictModeRemount ==
    /\ Live
    /\ lastOp = Op("mount", "")
    /\ isMountedRef' = TRUE
    /\ isFetchingDetails' = TRUE
    /\ fetchError' = FALSE
    /\ SetSock(disconnectSocket(leaveTrainingRoom(Sock)))
    /\ gets' = gets + 1
    /\ lastOp' = Op("StrictModeRemount", "")
    /\ UNCHANGED <<lib, otherVars, page, pc, status, runDetails, snapshotResults, taskType, accVars, rendered,
                   listeners, joinPending, token, posts, cleanPosts,
                   analyzePosts, hist>>

\* AnalyzeData: api.get(...).then(...).finally(...)
Analyze_FetchResolved(fetchedStatus, hasResults) ==
    /\ page = "Analyze"
    /\ gets > 0
    /\ gets' = gets - 1
    /\ lastOp' = Op("FetchResolved", "")
    /\ IF ~isMountedRef
       THEN UNCHANGED <<pageVars, accVars, posts, analyzePosts>>
       ELSE LET isTerminal == fetchedStatus \in {"SUCCESS", "FAILED", "ANALYSIS_FAILED",
                                                  "CLEANING_SUCCESS", "CLEANING_FAILED"}
                isRunning == fetchedStatus \in {"ANALYZING", "CLEANING", "TRAINING"}
            IN  /\ runDetails' = fetchedStatus
                /\ snapshotResults' = IF hasResults THEN SnapshotPayload ELSE NullPayload
                /\ analysisResults' = IF hasResults THEN SnapshotPayload ELSE analysisResults
                /\ isFetchingDetails' = FALSE
                /\ IF isTerminal \/ isRunning
                   THEN /\ status' = fetchedStatus
                        /\ UNCHANGED <<logs, posts, analyzePosts>>
                   ELSE /\ status' = "STARTING"
                        /\ logs' = Append(logs, "CLIENT")
                        /\ posts' = posts + 1
                        /\ analyzePosts' = analyzePosts + 1
                /\ UNCHANGED <<fetchError, taskType, cleaningReport, cleanedPreview,
                               metrics, metricData, progress, cleaningStartedRef,
                               toastShownRef, toasts>>
    /\ UNCHANGED <<lib, otherVars, page, pc, isMountedRef, rendered, listeners, sockVars, token,
                   cleanPosts, hist>>

\* CleanData: api.get(...).then(...).finally(...); a snapshot that is not
\* ready for cleaning navigates to the Analyze page, which unmounts this one
Clean_FetchResolved(fetchedStatus, report) ==
    /\ page = "Clean"
    /\ gets > 0
    /\ gets' = gets - 1
    /\ lastOp' = Op("FetchResolved", "")
    /\ IF ~isMountedRef
       THEN UNCHANGED <<pc, isMountedRef, pageVars, accVars, listeners, sockVars>>
       ELSE IF fetchedStatus \in {"SUCCESS", "CLEANING_FAILED", "CLEANING_SUCCESS", "CLEANING"}
       THEN /\ runDetails' = fetchedStatus
            /\ status' = IF fetchedStatus = "SUCCESS" THEN "READY" ELSE fetchedStatus
            /\ cleaningReport' = IF report # "none" THEN SnapshotPayload ELSE cleaningReport
            /\ cleanedPreview' = IF report = "preview" THEN "snapshot" ELSE cleanedPreview
            /\ isFetchingDetails' = FALSE
            /\ UNCHANGED <<pc, isMountedRef, fetchError, snapshotResults, taskType, logs,
                           analysisResults,
                           metrics, metricData, progress, cleaningStartedRef,
                           toastShownRef, toasts, listeners, sockVars>>
       ELSE /\ runDetails' = fetchedStatus
            /\ isFetchingDetails' = FALSE
            /\ pc' = "unmounted"
            /\ isMountedRef' = FALSE
            /\ SetSock(disconnectSocket(leaveTrainingRoom(Sock)))
            /\ listeners' = IF shouldConnect(rendered)
                            THEN removeListener(listeners, rendered) ELSE listeners
            /\ UNCHANGED <<status, fetchError, snapshotResults, taskType, accVars,
                           joinPending>>
    /\ UNCHANGED <<lib, otherVars, page, rendered, token, posts, cleanPosts, analyzePosts,
                   hist>>

\* Training: api.get(...).then(...).finally(...); determinedTaskType is the
\* task type the snapshot resolves to
Training_FetchResolved(fetchedStatus, determinedTaskType) ==
    /\ page = "Training"
    /\ gets > 0
    /\ gets' = gets - 1
    /\ lastOp' = Op("FetchResolved", "")
    /\ IF ~isMountedRef
       THEN UNCHANGED pageVars
       ELSE /\ runDetails' = fetchedStatus
            /\ status' = fetchedStatus
            /\ taskType' = determinedTaskType
            /\ isFetchingDetails' = FALSE
            /\ UNCHANGED <<fetchError, snapshotResults>>
    /\ UNCHANGED <<lib, otherVars, page, pc, isMountedRef, accVars, rendered, listeners, sockVars,
                   token, posts, cleanPosts, analyzePosts, hist>>

\* the .catch(...).finally(...) of the snapshot fetch
FetchRejected ==
    /\ gets > 0
    /\ gets' = gets - 1
    /\ lastOp' = Op("FetchRejected", "")
    /\ hist' = [hist EXCEPT !.fetchFailed = TRUE]
    /\ (isMountedRef /\ page = "Clean") => toasts < MaxToasts
    /\ IF ~isMountedRef
       THEN UNCHANGED <<pageVars, toasts>>
       ELSE /\ isFetchingDetails' = FALSE
            /\ fetchError' = IF page = "Clean" THEN fetchError ELSE TRUE
            /\ status' = IF page = "Clean" THEN "FAILED" ELSE "FETCH_FAILED"
            /\ toasts' = IF page = "Clean" THEN toasts + 1 ELSE toasts
            /\ UNCHANGED <<runDetails, snapshotResults, taskType>>
    /\ UNCHANGED <<lib, otherVars, page, pc, isMountedRef, logs, analysisResults, cleaningReport,
                   cleanedPreview, metrics, metricData, progress, cleaningStartedRef,
                   toastShownRef, rendered, listeners, sockVars, token, posts,
                   cleanPosts, analyzePosts>>

\* AnalyzeData: api.post(.../analyze) settles; only the rejection has a handler
Analyze_PostSettled(ok) ==
    /\ page = "Analyze"
    /\ posts > 0
    /\ posts' = posts - 1
    /\ lastOp' = Op("AnalyzePostSettled", IF ok THEN "ok" ELSE "error")
    /\ (~ok /\ isMountedRef) => toasts < MaxToasts
    /\ IF ok \/ ~isMountedRef
       THEN UNCHANGED <<status, logs, toasts>>
       ELSE /\ status' = "FAILED"
            /\ logs' = Append(logs, "ERROR")
            /\ toasts' = toasts + 1
    /\ UNCHANGED <<lib, otherVars, page, pc, isMountedRef, isFetchingDetails, fetchError, runDetails,
                   snapshotResults,
                   taskType, analysisResults, cleaningReport, cleanedPreview,
                   metrics, metricData, progress, cleaningStartedRef, toastShownRef,
                   rendered, listeners, sockVars, token, gets, cleanPosts,
                   analyzePosts, hist>>

\* the cleanups React runs when the page leaves the tree: the loader effect's
\* (declared first), then the WebSocket effect's, which finds the socket
\* disconnected already unless it was never connected
Unmount ==
    /\ Live
    /\ pc' = "unmounted"
    /\ isMountedRef' = FALSE
    /\ SetSock(disconnectSocket(leaveTrainingRoom(Sock)))
    /\ listeners' = IF shouldConnect(rendered)
                    THEN removeListener(listeners, rendered) ELSE listeners
    /\ lastOp' = Op("Unmount", "")
    /\ UNCHANGED <<lib, otherVars, page, pageVars, accVars, rendered, joinPending, token, reqVars,
                   hist>>

(* ---- the WebSocket effect -------------------------------------------- *)
\* a cleanup that leaves the handlers of the previous run on the socket
wsCleanup_KeepHandlers(ls, c) == ls

\* the cleanup function the effect returned, when it got past its guard
wsCleanup(ls, c) == removeListener(ls, c)

\* AnalyzeData reads `status` in its toast effect, a name the component does
\* not declare: it is the global window.status, which no code assigns
windowStatus == ""

\* the body of the toast effect of Analyze and Clean: the flags after it
toastEffect(shown) ==
    LET s == IF page = "Analyze" THEN windowStatus ELSE status
        ok == IF page = "Analyze" THEN {"SUCCESS"} ELSE {"CLEANING_SUCCESS"}
        ko == IF page = "Analyze" THEN {"FAILED", "ANALYSIS_FAILED"}
              ELSE {"CLEANING_FAILED"}
    IN  IF page = "Training" THEN shown
        ELSE IF s \in ok /\ ~shown.success THEN [shown EXCEPT !.success = TRUE]
        ELSE IF s \in ko /\ ~shown.error THEN [shown EXCEPT !.error = TRUE]
        ELSE shown

\* the commit after a change of the effect's dependencies: the previous
\* run's cleanup (if it returned one), then the effect body; the toast
\* effect, declared after it, runs in the same commit when the status changed
WebSocketEffect ==
    /\ Live
    /\ Deps(Cur) # Deps(rendered)
    /\ LET shown == IF status # rendered.status
                    THEN toastEffect(toastShownRef) ELSE toastShownRef
       IN  /\ shown # toastShownRef => toasts < MaxToasts
           /\ toastShownRef' = shown
           /\ toasts' = IF shown # toastShownRef THEN toasts + 1 ELSE toasts
    /\ LET hadCleanup == shouldConnect(rendered)
           s1 == IF hadCleanup /\ connected THEN leaveTrainingRoom(Sock) ELSE Sock
           l1 == IF hadCleanup THEN wsCleanup(listeners, rendered) ELSE listeners
       IN  IF shouldConnect(Cur)
           THEN /\ SetSock(connectSocket(s1))
                /\ listeners' = Append(l1, Cur)
                /\ lastOp' = Op("WebSocketEffect", "connect")
           ELSE /\ SetSock(s1)
                /\ listeners' = l1
                /\ lastOp' = Op("WebSocketEffect", "return")
    /\ rendered' = Cur
    /\ UNCHANGED <<lib, otherVars, page, pc, isMountedRef, pageVars, logs, analysisResults,
                   cleaningReport, cleanedPreview, metrics, metricData, progress,
                   cleaningStartedRef, joinPending, token, reqVars, hist>>

(* ---- socket events ---------------------------------------------------- *)
\* the transport (re)connects: socket.connected, the send buffer is flushed,
\* then the 'connect' listeners run
SocketConnected ==
    /\ active
    /\ ~connected
    /\ page = "Training" /\ isMountedRef /\ token /\ listeners # <<>>
         => joinPending < MaxJoinPending
    /\ LET s1 == flush([Sock EXCEPT !.connected = TRUE])
       IN  SetSt(Fire([name |-> "connect"], listeners, [St EXCEPT !.sock = s1]))
    /\ lastOp' = Op("connect", "")
    /\ UNCHANGED <<lib, otherVars, page, pc, isMountedRef, isFetchingDetails, fetchError, runDetails,
                   snapshotResults,
                   taskType, rendered, listeners, token, reqVars, hist>>

\* the connection is lost ("transport close") or closed by the server
\* ("io server disconnect"); socket.io reconnects by itself after the former
\* only, socket_enhanced.js calls socket.connect() after the latter
TransportDrop(reason) ==
    /\ connected
    /\ LET s1 == [Sock EXCEPT !.connected = FALSE, !.inRoom = FALSE,
                              !.active = (reason = "transport close")
                                         \/ page = "Training"]
       IN  SetSt(Fire([name |-> "disconnect"], listeners, [St EXCEPT !.sock = s1]))
    /\ lastOp' = Op("disconnect", "")
    /\ UNCHANGED <<lib, otherVars, page, pc, isMountedRef, isFetchingDetails, fetchError, runDetails,
                   snapshotResults,
                   taskType, rendered, listeners, token, reqVars, hist>>

\* socket_enhanced.js: the 'connect_error' listener on an authentication
\* error.  The server has refused the connection, so socket.io does not
\* retry by itself (socket.active is false) until socket.connect() is called.
connect_error ==
    /\ page = "Training"
    /\ active
    /\ ~connected
    /\ token
    /\ token' = FALSE
    /\ active' = FALSE
    /\ lastOp' = Op("connect_error", "Authentication error")
    /\ UNCHANGED <<lib, otherVars, page, pc, isMountedRef, pageVars, accVars, rendered, listeners,
                   connected, sendBuffer, inRoom, received, joinPending, reqVars,
                   hist>>

\* the promise of socket_enhanced.js joinTrainingRoom settles: room_joined
\* resolves it, room_error or the 10 s timeout rejects it, and the catch of
\* Training's onConnect then sets CONNECTING (React drops the update of an
\* unmounted component)
JoinSettled(ok) ==
    /\ joinPending > 0
    /\ joinPending' = joinPending - 1
    /\ status' = IF ~ok /\ Live THEN "CONNECTING" ELSE status
    /\ lastOp' = Op("JoinSettled", IF ok THEN "room_joined" ELSE "rejected")
    /\ UNCHANGED <<lib, otherVars, page, pc, isMountedRef, isFetchingDetails, fetchError, runDetails,
                   snapshotResults,
                   taskType, accVars, rendered, listeners, connected, active,
                   sendBuffer, inRoom, received, token, reqVars, hist>>

(* ---- the server emits to the run's room ------------------------------- *)
\* an event reaches this socket when it is connected and in the room
Delivered == connected /\ inRoom

ServerEmitStatus(s) ==
    /\ Live
    /\ (page = "Training" /\ Delivered /\ listeners # <<>> /\ isMountedRef
          /\ s \in Training_toastStatuses) => toasts < MaxToasts
    /\ IF Delivered
       THEN SetSt(Fire([name |-> "status_update", status |-> s], listeners, St))
       ELSE UNCHANGED <<status, accVars, sockVars>>
    /\ lastOp' = Op("status_update", s)
    /\ UNCHANGED <<lib, otherVars, page, pc, isMountedRef, isFetchingDetails, fetchError, runDetails,
                   snapshotResults,
                   taskType, rendered, listeners, token, reqVars, hist>>

ServerEmitMetric(metric) ==
    /\ Live
    /\ page = "Training"
    /\ IF Delivered
       THEN SetSt(Fire([name |-> "training_metric", metric |-> metric], listeners, St))
       ELSE UNCHANGED <<status, accVars, sockVars>>
    /\ hist' = IF isFetchingDetails
               THEN [hist EXCEPT !.earlyLabels = @ \cup {metric.epoch}] ELSE hist
    /\ lastOp' = Op("training_metric",
                    IF ~(Delivered /\ listeners # <<>>) THEN "lost"
                    ELSE IF IndexOf(metricData.pLabels,
                                    stepLabel(metric, Head(listeners))) > 0
                         THEN "upsert" ELSE "append")
    /\ UNCHANGED <<lib, otherVars, page, pc, isMountedRef, isFetchingDetails, fetchError, runDetails,
                   snapshotResults,
                   taskType, rendered, listeners, token, reqVars>>

(* ---- CleanData.jsx: the Apply Cleaning button ------------------------- *)
\* handleStartCleaning of the last render (its status is the rendered one),
\* with at most cap requests in flight; cleaningStartedRef is written and
\* never read
handleStartCleaningUpTo(cap) ==
    /\ Live
    /\ page = "Clean"
    /\ rendered.status \in {"READY", "CLEANING_FAILED"}
    /\ cleanPosts < cap
    /\ cleaningStartedRef' = TRUE
    /\ cleaningReport' = NullPayload
    /\ cleanedPreview' = NULL
    /\ logs' = <<"CLIENT", "CLIENT">>
    /\ toastShownRef' = [success |-> FALSE, error |-> FALSE]
    /\ status' = "CLEANING"
    /\ cleanPosts' = cleanPosts + 1
    /\ hist' = [hist EXCEPT !.retried = (rendered.status = "CLEANING_FAILED"),
                            !.expected = NullPayload]
    /\ lastOp' = Op("handleStartCleaning", rendered.status)
    /\ UNCHANGED <<lib, otherVars, page, pc, isMountedRef, isFetchingDetails, fetchError, runDetails,
                   snapshotResults,
                   taskType, analysisResults, metrics, metricData, progress, toasts,
                   rendered, listeners, sockVars, token, gets, posts, analyzePosts>>

handleStartCleaning == handleStartCleaningUpTo(MaxCleanPosts)

\* api.post(.../clean) settles; the catch has no liveness guard (React drops
\* the update of an unmounted component)
Clean_PostSettled(ok) ==
    /\ page = "Clean"
    /\ cleanPosts > 0
    /\ cleanPosts' = cleanPosts - 1
    /\ (~ok /\ Live) => toasts < MaxToasts
    /\ status' = IF ~ok /\ Live THEN "CLEANING_FAILED" ELSE status
    /\ toasts' = IF ~ok /\ Live THEN toasts + 1 ELSE toasts
    /\ lastOp' = Op("CleanPostSettled", IF ok THEN "ok" ELSE "error")
    /\ UNCHANGED <<lib, otherVars, page, pc, isMountedRef, isFetchingDetails, fetchError, runDetails,
                   snapshotResults,
                   taskType, logs, analysisResults, cleaningReport, cleanedPreview,
                   metrics, metricData, progress, cleaningStartedRef, toastShownRef,
                   rendered, listeners, sockVars, token, gets, posts, analyzePosts,
                   hist>>

(* ---- the page-lifecycle specification -------------------------------- *)
Next ==
    \/ StrictModeRemount
    \/ \E s \in ServerStatus("Analyze"), r \in BOOLEAN : Analyze_FetchResolved(s, r)
    \/ \E s \in ServerStatus("Clean"), r \in {"none", "report", "preview"} :
          Clean_FetchResolved(s, r)
    \/ \E s \in ServerStatus("Training"), tt \in LifecycleTaskTypes :
          Training_FetchResolved(s, tt)
    \/ FetchRejected
    \/ \E ok \in BOOLEAN : Analyze_PostSettled(ok)
    \/ Unmount
    \/ WebSocketEffect
    \/ SocketConnected
    \/ \E reason \in {"transport close", "io server disconnect"} : TransportDrop(reason)
    \/ connect_error
    \/ \E ok \in BOOLEAN : JoinSettled(ok)
    \/ \E s \in ServerStatus(page) : ServerEmitStatus(s)
    \/ \E m \in LifecycleMetrics : ServerEmitMetric(m)
    \/ handleStartCleaning
    \/ \E ok \in BOOLEAN : Clean_PostSettled(ok)

Spec == Init /\ [][Next]_vars

(* ---- the chart specification: a loaded Training page receiving metrics *)
Values == {Nil, 1}

ChartMetrics ==
    { Metric(e, Nil, Nil, a, b) : e \in {Nil} \cup (1..MaxLabel), a \in Values, b \in Values }

\* Training after its snapshot has loaded with status TRAINING, the WebSocket
\* effect has run, the socket has connected and the room join has settled
InitChart ==
    /\ page = "Training"
    /\ pc = "live"
    /\ isMountedRef = TRUE
    /\ status = "TRAINING"
    /\ isFetchingDetails = FALSE
    /\ fetchError = FALSE
    /\ runDetails = "TRAINING"
    /\ snapshotResults = NullPayload
    /\ taskType \in {"classification", "regression"}
    /\ logs = <<>>
    /\ analysisResults = NullPayload
    /\ cleaningReport = NullPayload
    /\ cleanedPreview = NULL
    /\ metrics = NoMetric
    /\ metricData = initialChartData
    /\ progress = initialProgress
    /\ cleaningStartedRef = FALSE
    /\ toastShownRef = [success |-> FALSE, error |-> FALSE]
    /\ toasts = 0
    /\ rendered = [isFetching |-> FALSE, fetchError |-> FALSE, runDetails |-> "TRAINING",
                   taskType |-> taskType, status |-> "TRAINING", progress |-> initialProgress]
    /\ listeners = <<rendered>>
    /\ connected = TRUE
    /\ active = TRUE
    /\ sendBuffer = <<>>
    /\ inRoom = TRUE
    /\ received = "join_room"
    /\ joinPending = 0
    /\ token = TRUE
    /\ gets = 0
    /\ posts = 0
    /\ cleanPosts = 0
    /\ analyzePosts = 0
    /\ lib = NoLib
    /\ details = NoDetails
    /\ prog = NoProgress
    /\ auth = NoAuth
    /\ hist = [fetchFailed |-> FALSE, earlyLabels |-> {}, retried |-> FALSE,
               expected |-> NullPayload]
    /\ lastOp = Op("JoinSettled", "room_joined")

NextChart == \E m \in ChartMetrics : ServerEmitMetric(m)

SpecChart == InitChart /\ [][NextChart]_vars

(* ---- the eviction specification: metrics with sequential step labels -- *)
\* the label of the next metric: 1, 2, 3, ...
NextEpoch == IF metrics.epoch = Nil THEN 1 ELSE metrics.epoch + 1

\* the server emits the metric of the next epoch, every value being the epoch
FeedNextEpoch ==
    /\ NextEpoch <= maxPoints + MaxExtra
    /\ ServerEmitMetric(Metric(NextEpoch, Nil, Nil, NextEpoch, NextEpoch))

SpecEvict == InitChart /\ [][FeedNextEpoch]_vars

(* ---- the wrapper-level specification: the socket wrapper modules ------ *)
\* lib/socket.js, lib/socket_enhanced.js and the wrapper that creates its
\* socket lazily, each called by an arbitrary caller, no page being mounted
Variants == {"socket", "socket_enhanced", "lazy"}

\* the two wrappers whose joinTrainingRoom returns a Promise
PromiseVariants == {"socket_enhanced", "lazy"}

\* socket.connect() of socket.io: nothing on a connected socket, and the
\* manager opens no second engine while one is open or opening
socketConnectOpens(s) == IF s.connected \/ s.active THEN 0 ELSE 1

\* a connectSocket that registers its listeners whatever the socket's state
connectSocketAdds_NoGuard(variant, s) ==
    IF variant = "socket_enhanced" THEN 2 ELSE 0

\* the listeners one connectSocket call registers on the socket:
\* socket_enhanced adds a 'connect' and a 'connect_error' listener for its
\* Promise, after its guard
connectSocketAdds(variant, s) ==
    IF variant = "socket_enhanced" /\ ~s.connected THEN 2 ELSE 0

\* leaveTrainingRoom of the lazy wrapper: emits only if (s.connected)
leaveTrainingRoom_lazy(s) ==
    IF s.connected THEN emit(s, "leave_room") ELSE s

libFrame == <<otherVars, page, pc, isMountedRef, pageVars, accVars, rendered, listeners,
              reqVars, hist>>

InitLib ==
    /\ page = "none"
    /\ pc = "unmounted"
    /\ isMountedRef = FALSE
    /\ status = "LOADING_DETAILS"
    /\ isFetchingDetails = TRUE
    /\ fetchError = FALSE
    /\ runDetails = NULL
    /\ snapshotResults = NullPayload
    /\ taskType = NULL
    /\ logs = <<>>
    /\ analysisResults = NullPayload
    /\ cleaningReport = NullPayload
    /\ cleanedPreview = NULL
    /\ metrics = NoMetric
    /\ metricData = initialChartData
    /\ progress = initialProgress
    /\ cleaningStartedRef = FALSE
    /\ toastShownRef = [success |-> FALSE, error |-> FALSE]
    /\ toasts = 0
    /\ rendered = [isFetching |-> TRUE, fetchError |-> FALSE, runDetails |-> NULL,
                   taskType |-> NULL, status |-> "LOADING_DETAILS", progress |-> initialProgress]
    /\ listeners = <<>>
    /\ connected = FALSE
    /\ active = FALSE
    /\ sendBuffer = <<>>
    /\ inRoom = FALSE
    /\ received = ""
    /\ joinPending = 0
    /\ token \in BOOLEAN
    /\ gets = 0
    /\ posts = 0
    /\ cleanPosts = 0
    /\ analyzePosts = 0
    /\ details = NoDetails
    /\ prog = NoProgress
    /\ auth = NoAuth
    /\ lib \in { [variant |-> v, transports |-> 0, added |-> 0, outcome |-> "none"] :
                 v \in Variants }
    /\ hist = [fetchFailed |-> FALSE, earlyLabels |-> {}, retried |-> FALSE,
               expected |-> NullPayload]
    /\ lastOp = Op("import", "")

\* how the socket stands when a wrapper function is called
SocketState ==
    IF connected THEN "connected" ELSE IF active THEN "connecting" ELSE "closed"

\* connectSocket(): all three return at once on a connected socket and call
\* socket.connect() otherwise; socket_enhanced returns a Promise
Lib_connectSocket ==
    /\ lib.added + connectSocketAdds(lib.variant, Sock) <= MaxAdded
    /\ SetSock(connectSocket(Sock))
    /\ lib' = [lib EXCEPT
                 !.transports = IF connected THEN @ ELSE @ + socketConnectOpens(Sock),
                 !.added = @ + connectSocketAdds(lib.variant, Sock),
                 !.outcome = IF lib.variant # "socket_enhanced" THEN "returned"
                             ELSE IF connected THEN "resolved" ELSE "pending"]
    /\ lastOp' = Op("connectSocket", SocketState)
    /\ UNCHANGED <<libFrame, joinPending, token>>

\* disconnectSocket(): socket.disconnect() if (socket.connected)
Lib_disconnectSocket ==
    /\ connected
    /\ SetSock(disconnectSocket(Sock))
    /\ lib' = [lib EXCEPT !.transports = 0, !.outcome = "returned"]
    /\ lastOp' = Op("disconnectSocket", SocketState)
    /\ UNCHANGED <<libFrame, joinPending, token>>

\* joinTrainingRoom(runId): socket.js returns after console.error when there
\* is no token; the other two return a Promise, rejected at once when there is
\* no token and otherwise settled by the server's answer (socket_enhanced also
\* by its timeout, and it leaves a 'room_joined' listener on the socket)
Lib_joinTrainingRoom ==
    /\ (token /\ ~connected) => Len(sendBuffer) < MaxBuffer
    /\ (token /\ lib.variant \in PromiseVariants) => joinPending < MaxJoinPending
    /\ (token /\ lib.variant = "socket_enhanced") => lib.added < MaxAdded
    /\ SetSock(joinTrainingRoom(Sock))
    /\ joinPending' = IF token /\ lib.variant \in PromiseVariants
                      THEN joinPending + 1 ELSE joinPending
    /\ lib' = [lib EXCEPT
                 !.added = IF token /\ lib.variant = "socket_enhanced" THEN @ + 1 ELSE @,
                 !.outcome = IF lib.variant = "socket" THEN "returned"
                             ELSE IF token THEN "pending" ELSE "rejected"]
    /\ lastOp' = Op("joinTrainingRoom", SocketState)
    /\ UNCHANGED <<libFrame, token>>

\* the server answers a join_room it received: room_joined / an ack with
\* success, or room_error / an ack with an error.  socket.js has registered
\* nothing for either answer.
Lib_JoinAnswered(ok) ==
    /\ connected
    /\ received = "join_room"
    /\ lib.variant \in PromiseVariants => joinPending > 0
    /\ joinPending' = IF lib.variant \in PromiseVariants
                      THEN joinPending - 1 ELSE joinPending
    /\ inRoom' = IF ok THEN inRoom ELSE FALSE
    /\ received' = ""
    /\ lib' = [lib EXCEPT
                 !.outcome = IF lib.variant = "socket" THEN @
                             ELSE IF ok THEN "resolved" ELSE "rejected"]
    /\ lastOp' = Op("JoinAnswered", IF ok THEN "joined" ELSE "error")
    /\ UNCHANGED <<libFrame, connected, active, sendBuffer, token>>

\* socket_enhanced: the 10 s timeout of joinTrainingRoom rejects the Promise
Lib_JoinTimeout ==
    /\ lib.variant = "socket_enhanced"
    /\ joinPending > 0
    /\ joinPending' = joinPending - 1
    /\ lib' = [lib EXCEPT !.outcome = "rejected"]
    /\ lastOp' = Op("JoinTimeout", SocketState)
    /\ UNCHANGED <<libFrame, connected, active, sendBuffer, inRoom, received, token>>

\* leaveTrainingRoom(runId): socket.js and socket_enhanced emit whatever the
\* socket's state, the lazy wrapper only when connected
Lib_leaveTrainingRoom ==
    /\ (lib.variant # "lazy" /\ ~connected) => Len(sendBuffer) < MaxBuffer
    /\ SetSock(IF lib.variant = "lazy" THEN leaveTrainingRoom_lazy(Sock)
               ELSE leaveTrainingRoom(Sock))
    /\ lib' = [lib EXCEPT !.outcome = "returned"]
    /\ lastOp' = Op("leaveTrainingRoom", SocketState)
    /\ UNCHANGED <<libFrame, joinPending, token>>

\* the transport connects: the send buffer is flushed
Lib_SocketConnected ==
    /\ active
    /\ ~connected
    /\ SetSock(flush([Sock EXCEPT !.connected = TRUE]))
    /\ lastOp' = Op("connect", "")
    /\ UNCHANGED <<libFrame, joinPending, token, lib>>

\* the connection is lost or closed by the server; socket.io opens a new one
\* by itself after the former, socket_enhanced calls socket.connect() after
\* the latter
Lib_TransportDrop(reason) ==
    /\ connected
    /\ LET again == (reason = "transport close") \/ lib.variant = "socket_enhanced"
       IN  /\ SetSock([Sock EXCEPT !.connected = FALSE, !.inRoom = FALSE,
                                   !.active = again])
           /\ lib' = [lib EXCEPT !.transports = IF again THEN 1 ELSE 0]
    /\ lastOp' = Op("disconnect", reason)
    /\ UNCHANGED <<libFrame, joinPending, token>>

NextLib ==
    \/ Lib_connectSocket
    \/ Lib_disconnectSocket
    \/ Lib_joinTrainingRoom
    \/ \E ok \in BOOLEAN : Lib_JoinAnswered(ok)
    \/ Lib_JoinTimeout
    \/ Lib_leaveTrainingRoom
    \/ Lib_SocketConnected
    \/ \E reason \in {"transport close", "io server disconnect"} :
          Lib_TransportDrop(reason)

SpecLib == InitLib /\ [][NextLib]_vars

(* ---- the log specification: loaded pages receiving log events -------- *)
LogEvent(type, key, data) ==
    [name |-> "training_log", type |-> type, key |-> key, data |-> data]

\* the data a log event may carry: none, {}, and two objects with one field each
LogData == {NullPayload, Payload(Nil, Nil), Payload(1, Nil), Payload(Nil, 2)}

LogEvents ==
    {LogEvent("INFO", "", NullPayload)}
    \cup {LogEvent("analysis_result", k, d) : k \in {"", "preview_cleaned_data"},
                                              d \in LogData}
    \cup {LogEvent("cleaning_report", "", d) : d \in LogData}

\* the event reaches the page's training_log handlers
Handled == Delivered /\ listeners # <<>> /\ isMountedRef

\* the server emits a log event to the run's room
ServerEmitLog(log) ==
    /\ Live
    /\ Len(logs) + Len(listeners) <= MaxLogs
    /\ IF Delivered
       THEN SetSt(Fire(log, listeners, St))
       ELSE UNCHANGED <<status, accVars, sockVars>>
    /\ hist' = IF /\ Handled
                  /\ Truthy(log.data)
                  /\ \/ page = "Analyze" /\ log.type = "analysis_result"
                     \/ page = "Clean" /\ log.type = "cleaning_report"
               THEN [hist EXCEPT !.expected = log.data] ELSE hist
    /\ lastOp' = Op("training_log", IF Handled THEN log.type ELSE "lost")
    /\ UNCHANGED <<lib, otherVars, page, pc, isMountedRef, isFetchingDetails, fetchError, runDetails,
                   snapshotResults, taskType, rendered, listeners, token, reqVars>>

\* AnalyzeData renders RenderSummary: with no analysisResults, or an object
\* without keys, and status SUCCESS it calls setAnalysisResults with the
\* snapshot's analysis_results
Analyze_RenderSummary ==
    /\ Live
    /\ page = "Analyze"
    /\ analysisResults.isNull \/ analysisResults = Payload(Nil, Nil)
    /\ status = "SUCCESS"
    /\ Truthy(snapshotResults)
    /\ analysisResults' = snapshotResults
    /\ lastOp' = Op("RenderSummary", "")
    /\ UNCHANGED <<lib, otherVars, page, pc, isMountedRef, pageVars, logs, cleaningReport,
                   cleanedPreview, metrics, metricData, progress, cleaningStartedRef,
                   toastShownRef, toasts, rendered, listeners, sockVars, token,
                   reqVars, hist>>

\* a page whose snapshot has loaded (Analyze: status ANALYZING; Clean: status
\* SUCCESS, shown as READY; Training: status TRAINING), whose WebSocket effect
\* has run, with the socket connected and the room joined
InitLog ==
    /\ page \in Pages
    /\ pc = "live"
    /\ isMountedRef = TRUE
    /\ status = (CASE page = "Analyze" -> "ANALYZING" [] page = "Clean" -> "READY"
                   [] page = "Training" -> "TRAINING")
    /\ isFetchingDetails = FALSE
    /\ fetchError = FALSE
    /\ runDetails = (CASE page = "Analyze" -> "ANALYZING" [] page = "Clean" -> "SUCCESS"
                       [] page = "Training" -> "TRAINING")
    /\ snapshotResults \in (IF page = "Analyze" THEN {NullPayload, SnapshotPayload}
                            ELSE {NullPayload})
    /\ taskType = IF page = "Training" THEN "classification" ELSE NULL
    /\ logs = <<>>
    /\ analysisResults = snapshotResults
    /\ cleaningReport \in (IF page = "Clean" THEN {NullPayload, SnapshotPayload}
                           ELSE {NullPayload})
    /\ cleanedPreview = NULL
    /\ metrics = NoMetric
    /\ metricData = initialChartData
    /\ progress = initialProgress
    /\ cleaningStartedRef = FALSE
    /\ toastShownRef = [success |-> FALSE, error |-> FALSE]
    /\ toasts = 0
    /\ rendered = [isFetching |-> FALSE, fetchError |-> FALSE, runDetails |-> runDetails,
                   taskType |-> taskType, status |-> status, progress |-> initialProgress]
    /\ listeners = <<rendered>>
    /\ connected = TRUE
    /\ active = TRUE
    /\ sendBuffer = <<>>
    /\ inRoom = TRUE
    /\ received = "join_room"
    /\ joinPending = 0
    /\ token = TRUE
    /\ gets = 0
    /\ posts = 0
    /\ cleanPosts = 0
    /\ analyzePosts = 0
    /\ lib = NoLib
    /\ details = NoDetails
    /\ prog = NoProgress
    /\ auth = NoAuth
    /\ hist = [fetchFailed |-> FALSE, earlyLabels |-> {}, retried |-> FALSE,
               expected |-> IF page = "Clean" THEN cleaningReport ELSE analysisResults]
    /\ lastOp = Op("JoinSettled", "room_joined")

NextLog ==
    \/ \E log \in LogEvents : ServerEmitLog(log)
    \/ \E s \in ServerStatus(page) : ServerEmitStatus(s)
    \/ WebSocketEffect
    \/ Analyze_RenderSummary
    \/ handleStartCleaning
    \/ \E ok \in BOOLEAN : Clean_PostSettled(ok)

SpecLog == InitLog /\ [][NextLog]_vars

(* ---- Training.jsx: the task type of a snapshot --------------------- *)
\* a string as the sequence of its characters
Str_regressor == <<"r", "e", "g", "r", "e", "s", "s", "o", "r">>
Str_regression == <<"r", "e", "g", "r", "e", "s", "s", "i", "o", "n">>

\* String.prototype.includes
includes(str, sub) ==
    \E i \in 1..(Len(str) - Len(sub) + 1) : SubSeq(str, i, i + Len(sub) - 1) = sub

\* JavaScript truthiness of an optional string: undefined, null and "" are falsy
TruthyStr(x) == x \notin {NULL, ""}

\* a resolution that consults the educational summary before the user's
\* configuration
determinedTaskType_SummaryFirst(d) ==
    IF TruthyStr(d.educational_summary_task_type) THEN d.educational_summary_task_type
    ELSE IF TruthyStr(d.user_config_task_type) THEN d.user_config_task_type
    ELSE IF ~d.model_id_str.isNull
            /\ (includes(d.model_id_str.chars, Str_regressor)
                \/ includes(d.model_id_str.chars, Str_regression))
    THEN "regression"
    ELSE "classification"

\* let determinedTaskType = 'classification'; if ... else if ... else if ...
\* (model_id_str?.includes(...) is undefined, falsy, without a model_id_str)
determinedTaskType(d) ==
    IF TruthyStr(d.user_config_task_type) THEN d.user_config_task_type
    ELSE IF TruthyStr(d.educational_summary_task_type) THEN d.educational_summary_task_type
    ELSE IF ~d.model_id_str.isNull
            /\ (includes(d.model_id_str.chars, Str_regressor)
                \/ includes(d.model_id_str.chars, Str_regression))
    THEN "regression"
    ELSE "classification"

\* the task_type values a snapshot may carry: none (the field or its parent
\* object is missing), the empty string, and two names
TaskTypeValues == {NULL, "", "classification", "regression"}

\* model identifiers: xgboost_regressor, linear_regression, random_forest,
\* Regressor, regress, the empty string, and none
ModelIds ==
    {[isNull |-> TRUE, chars |-> <<>>]}
    \cup {[isNull |-> FALSE, chars |-> c] : c \in
         {<<"x", "g", "b", "o", "o", "s", "t", "_", "r", "e", "g", "r", "e", "s", "s", "o", "r">>,
          <<"l", "i", "n", "e", "a", "r", "_", "r", "e", "g", "r", "e", "s", "s", "i", "o", "n">>,
          <<"r", "a", "n", "d", "o", "m", "_", "f", "o", "r", "e", "s", "t">>,
          <<"R", "e", "g", "r", "e", "s", "s", "o", "r">>,
          <<"r", "e", "g", "r", "e", "s", "s">>,
          <<>>}}

Snapshots ==
    [status : {"TRAINING"},
     user_config_task_type : TaskTypeValues,
     educational_summary_task_type : TaskTypeValues,
     model_id_str : ModelIds]

\* the Training page after its first commit, its GET about to be answered
\* with some snapshot
InitTask ==
    /\ page = "Training"
    /\ pc = "live"
    /\ isMountedRef = TRUE
    /\ status = "LOADING_DETAILS"
    /\ isFetchingDetails = TRUE
    /\ fetchError = FALSE
    /\ runDetails = NULL
    /\ snapshotResults = NullPayload
    /\ taskType = NULL
    /\ logs = <<>>
    /\ analysisResults = NullPayload
    /\ cleaningReport = NullPayload
    /\ cleanedPreview = NULL
    /\ metrics = NoMetric
    /\ metricData = initialChartData
    /\ progress = initialProgress
    /\ cleaningStartedRef = FALSE
    /\ toastShownRef = [success |-> FALSE, error |-> FALSE]
    /\ toasts = 0
    /\ rendered = [isFetching |-> TRUE, fetchError |-> FALSE, runDetails |-> NULL,
                   taskType |-> NULL, status |-> "LOADING_DETAILS", progress |-> initialProgress]
    /\ listeners = <<>>
    /\ connected = FALSE
    /\ active = FALSE
    /\ sendBuffer = <<>>
    /\ inRoom = FALSE
    /\ received = ""
    /\ joinPending = 0
    /\ token = TRUE
    /\ gets = 1
    /\ posts = 0
    /\ cleanPosts = 0
    /\ analyzePosts = 0
    /\ lib = NoLib
    /\ details \in Snapshots
    /\ prog = NoProgress
    /\ auth = NoAuth
    /\ hist = [fetchFailed |-> FALSE, earlyLabels |-> {}, retried |-> FALSE,
               expected |-> NullPayload]
    /\ lastOp = Op("mount", "")

\* the .then of the GET
NextTask == Training_FetchResolved(details.status, determinedTaskType(details))

SpecTask == InitTask /\ [][NextTask]_vars

(* ---- the progress specification: a loaded Training page receiving ---- *)
(* ---- progress events and metrics                                  ---- *)
\* step counts and totals the events carry; NegTotal is a negative total
NegTotal == 0 - 2

StepValues == {Nil} \cup (0..MaxStep)

TotalValues == {Nil, 0, MaxStep, NegTotal}

ProgressEvents ==
    { Progress(e, te, cs, ts) : e \in StepValues, te \in TotalValues,
                                cs \in StepValues, ts \in TotalValues }

ServerEmitProgress(p) ==
    /\ Live
    /\ page = "Training"
    /\ IF Delivered
       THEN SetSt(Fire([name |-> "training_progress", progress |-> p], listeners, St))
       ELSE UNCHANGED <<status, accVars, sockVars>>
    /\ prog' = p
    /\ lastOp' = Op("training_progress", IF Delivered /\ listeners # <<>> /\ isMountedRef
                                          THEN "merged" ELSE "lost")
    /\ UNCHANGED <<lib, details, auth, page, pc, isMountedRef, isFetchingDetails, fetchError,
                   runDetails, snapshotResults, taskType, rendered, listeners, token,
                   reqVars, hist>>

NextProgress ==
    \/ \E p \in ProgressEvents : ServerEmitProgress(p)
    \/ \E m \in LifecycleMetrics : ServerEmitMetric(m)

SpecProgress == InitChart /\ [][NextProgress]_vars

(* ===================================================================== *)
(* Properties                                                            *)
(* ===================================================================== *)
\* C1: monotonic terminality.  On each live page, once the status is in the
\* terminal set no status_update changes it to a non-terminal status, except
\* the CLEANING_FAILED -> CLEANING retry path of the Clean page.
C1_MonotonicTerminality ==
    [][ (lastOp'.op = "status_update" /\ status \in Terminal)
          => \/ status' \in Terminal
             \/ page = "Clean" /\ status = "CLEANING_FAILED" /\ status' = "CLEANING" ]_vars

\* C2: happy path of the Analyze page.  The snapshot was PENDING, the loader
\* triggered the analysis, status_update ANALYZING has been delivered (the
\* status is ANALYZING) and the socket is still connected: a status_update
\* SUCCESS the server emits to the run's room now is delivered, and the
\* status ends as SUCCESS.
C2_HappyPath ==
    [][ ( /\ page = "Analyze" /\ Live /\ isMountedRef /\ token
          /\ runDetails = "PENDING" /\ analyzePosts > 0
          /\ status = "ANALYZING" /\ connected
          /\ lastOp' = Op("status_update", "SUCCESS") )
          => status' = "SUCCESS" ]_vars

\* C3: disconnect/resume.  Once the status is CONNECTING, the socket's
\* reconnect (connect event and room re-join) leaves it CONNECTING, on all
\* three pages.
C3_ReconnectKeepsConnecting ==
    [][ (lastOp'.op = "connect" /\ status = "CONNECTING") => status' = "CONNECTING" ]_vars

\* C4: retry after a cleaning failure.  handleStartCleaning invoked with
\* status CLEANING_FAILED empties cleaningReport and cleanedPreview and sets
\* CLEANING; a status_update CLEANING_SUCCESS the server emits to the run's
\* room afterwards, while the socket is connected, is delivered and
\* accepted: the status becomes CLEANING_SUCCESS.
C4_RetryAccepted ==
    [][ /\ lastOp' = Op("handleStartCleaning", "CLEANING_FAILED")
           => cleaningReport' = NullPayload /\ cleanedPreview' = NULL /\ status' = "CLEANING"
        /\ ( /\ page = "Clean" /\ Live /\ isMountedRef /\ token
             /\ hist.retried /\ status = "CLEANING" /\ connected
             /\ lastOp' = Op("status_update", "CLEANING_SUCCESS") )
           => status' = "CLEANING_SUCCESS" ]_vars

\* C5: the Analyze loader issues POST .../analyze at most once per page
\* lifetime (also across a cleanup and re-run of the loader effect), only
\* for a fetched status that is neither terminal nor running, and sets
\* STARTING when it does.
C5_AnalyzeTriggeredOnce ==
    [][ analyzePosts' # analyzePosts
          => /\ analyzePosts = 0
             /\ status' = "STARTING"
             /\ runDetails' \notin {"SUCCESS", "FAILED", "ANALYSIS_FAILED", "CLEANING_SUCCESS",
                                    "CLEANING_FAILED", "ANALYZING", "CLEANING", "TRAINING"} ]_vars

\* C6: when the snapshot fetch fails the status becomes FETCH_FAILED, and
\* no later run of the WebSocket effect calls connectSocket and registers
\* listeners, on each page.
C6_FetchFailureStopsChannel ==
    [][ /\ (lastOp'.op = "FetchRejected" /\ isMountedRef) => status' = "FETCH_FAILED"
        /\ hist.fetchFailed => lastOp' # Op("WebSocketEffect", "connect") ]_vars

\* C7: after every socket (re)connect while the page is mounted, its status
\* is non-terminal and an access_token is in local storage, a join_room for
\* the run is emitted (the server, which takes it at once, has the socket in
\* the room).
C7_JoinAfterEveryConnect ==
    [][ (lastOp'.op = "connect" /\ Live /\ isMountedRef /\ token /\ status \notin Terminal)
          => inRoom' ]_vars

\* C8: no duplicate delivery.  At most one set of page handlers is
\* registered on the socket at any time, so each event is applied once.
C8_AtMostOneHandler == Len(listeners) <= 1

\* the WebSocket effect has re-run after a disconnect and registered its
\* handlers again, on a page that had joined the room before
C8_Witness ==
    /\ lastOp = Op("WebSocketEffect", "connect")
    /\ rendered.status = "CONNECTING"
    /\ Len(listeners) = 1

\* C9: order-independent bootstrap.  A metric the server emitted while the
\* snapshot fetch was unresolved is in the chart series once the page has
\* finished loading.
C9_EarlyMetricReflected ==
    (page = "Training" /\ Live /\ ~isFetchingDetails /\ ~fetchError /\ taskType # NULL)
      => \A l \in hist.earlyLabels : IndexOf(metricData.pLabels, l) > 0

\* C10: chart upsert.  When onMetric handles a metric whose resolved step
\* label (progress.current_step after the event) is already in the labels,
\* the four values at that label's index are overwritten by the event's and
\* the labels and the length of every dataset are unchanged.
C10_ChartUpsert ==
    [][ ( /\ lastOp'.op = "training_metric" /\ lastOp'.arg # "lost"
          /\ isMountedRef /\ taskType # NULL
          /\ IndexOf(metricData.pLabels, progress'.current_step) > 0 )
          => LET i == IndexOf(metricData.pLabels, progress'.current_step)
                 m == metrics'
                 reg == taskType = "regression"
                 d == metricData
                 e == metricData'
                 same(old, new, v) ==
                     /\ Len(new) = Len(old)
                     /\ new[i] = v
                     /\ \A j \in 1..Len(old) : j # i => new[j] = old[j]
             IN  /\ e.pLabels = d.pLabels
                 /\ e.sLabels = d.sLabels
                 /\ same(d.pTrain, e.pTrain, IF reg THEN m.train_r2 ELSE m.train_accuracy)
                 /\ same(d.pVal, e.pVal, IF reg THEN m.val_r2 ELSE m.val_accuracy)
                 /\ same(d.sTrain, e.sTrain, IF reg THEN m.train_rmse ELSE m.train_loss)
                 /\ same(d.sVal, e.sVal, IF reg THEN m.val_rmse ELSE m.val_loss) ]_vars

\* a metric has just overwritten the first of two points with other values
C10_Witness ==
    /\ lastOp = Op("training_metric", "upsert")
    /\ Len(metricData.pLabels) = 2
    /\ metricData.pLabels[1] = progress.current_step
    /\ metricData.pTrain[1] # metricData.pVal[1]

\* C11: eviction bound.  After n metrics with the distinct step labels
\* 1..n every chart array (labels and both datasets of the primary and the
\* secondary series) holds the min(n, 150) most recent points in arrival
\* order, so never more than 150.
C11_EvictionBound ==
    LET n == IF metrics.epoch = Nil THEN 0 ELSE metrics.epoch
        len == IF n > 150 THEN 150 ELSE n
        recent == [i \in 1..len |-> n - len + i]
    IN  /\ Len(metricData.pLabels) <= 150
        /\ metricData.pLabels = recent
        /\ metricData.sLabels = recent
        /\ metricData.pTrain = recent
        /\ metricData.pVal = recent
        /\ metricData.sTrain = recent
        /\ metricData.sVal = recent

\* more than 150 metrics have been fed and the oldest labels are gone
C11_Witness ==
    /\ metrics.epoch = 152
    /\ Len(metricData.pLabels) = 150
    /\ metricData.pLabels[1] = 3
    /\ metricData.sLabels[150] = 152

\* C12: the success / failure notification is fired exactly once when the
\* status becomes terminal during the page's lifetime: a repeated identical
\* terminal status_update fires nothing, and once the page has committed a
\* SUCCESS or failure status that its snapshot did not have yet, a
\* notification has been fired.
C12_NotifiedExactlyOnce ==
    [][ /\ ( /\ lastOp'.op = "status_update" /\ Live
             /\ status \in Terminal /\ status' = status )
           => toasts' = toasts
        /\ ( /\ Live /\ rendered'.status = status'
             /\ status' \in {"SUCCESS", "FAILED", "ANALYSIS_FAILED",
                              "CLEANING_SUCCESS", "CLEANING_FAILED"}
             /\ runDetails' # NULL /\ runDetails' \notin Terminal )
           => toasts' >= 1 ]_vars

\* C13: once the status of a live page is terminal, neither a socket
\* disconnect event nor a rejected or timed-out room join (at once, when no
\* token is stored, or when the join promise settles) sets it to CONNECTING.
C13_TerminalNotOverwritten ==
    [][ ( /\ Live /\ status \in Terminal
          /\ lastOp'.op \in {"disconnect", "connect", "JoinSettled"} )
          => status' # "CONNECTING" ]_vars

\* C14: a socket disconnect event received while the page is mounted and its
\* status is actively running sets the status to CONNECTING and leaves the
\* logs, the analysis results, the cleaning report and preview, the last
\* metric, the chart series and the progress unchanged.
C14_DisconnectFrame ==
    [][ ( /\ lastOp'.op = "disconnect" /\ Live /\ isMountedRef
          /\ status \in {"STARTING", "ANALYZING", "CLEANING", "TRAINING"} )
          => /\ status' = "CONNECTING"
             /\ UNCHANGED <<logs, analysisResults, cleaningReport, cleanedPreview,
                            metrics, metricData, progress>> ]_vars

\* C15: after the page is unmounted no step (socket connect or disconnect, a
\* late snapshot resolution or rejection, a late analyze or clean trigger
\* result, a late join result) changes the page's state, none of its
\* handlers is left on the socket, the socket is outside the run's room, and
\* if the socket was connected at the unmount the server received leave_room.
C15_UnmountIsFinal ==
    [][ /\ pc = "unmounted"
           => UNCHANGED <<status, isFetchingDetails, fetchError, runDetails, taskType,
                          logs, analysisResults, cleaningReport, cleanedPreview,
                          metrics, metricData, progress>>
        /\ pc' = "unmounted" => (listeners' = <<>> /\ ~inRoom')
        /\ (pc = "live" /\ pc' = "unmounted" /\ connected)
           => received' = "leave_room" ]_vars

\* a page unmounted with a connected socket and a clean trigger in flight,
\* whose POST has failed afterwards
C15_Witness ==
    /\ pc = "unmounted"
    /\ received = "leave_room"
    /\ lastOp = Op("CleanPostSettled", "error")
    /\ status = "CLEANING"

\* C16: connectSocket is idempotent in every wrapper variant.  A call on a
\* connected socket is a no-op: the socket is left as it was, no transport
\* connection is opened and no listener is added.  After any call, whatever
\* calls came before it, at most one transport connection is open or opening.
C16_ConnectIdempotent ==
    [][ lastOp'.op = "connectSocket" =>
          /\ connected => /\ UNCHANGED sockVars
                          /\ lib'.transports = lib.transports
                          /\ lib'.added = lib.added
          /\ lib'.transports <= 1 ]_vars

\* socket_enhanced: connectSocket called on a connected socket, after earlier
\* calls on the unconnected socket that registered listeners
C16_Witness ==
    /\ lastOp = Op("connectSocket", "connected")
    /\ lib.variant = "socket_enhanced"
    /\ lib.added > 2
    /\ lib.transports = 1

\* C17: in every wrapper variant, joinTrainingRoom called while local storage
\* holds no access_token signals a failure to its caller and emits no
\* join_room (nothing is sent and nothing is buffered); and when the server
\* rejects a join, the caller is signalled a failure.
C17_JoinFailureSignalled ==
    [][ /\ (lastOp'.op = "joinTrainingRoom" /\ ~token)
           => /\ lib'.outcome = "rejected"
              /\ UNCHANGED <<sendBuffer, received, inRoom>>
        /\ lastOp' = Op("JoinAnswered", "error") => lib'.outcome = "rejected" ]_vars

\* C18: leave_room is emitted only while the socket is connected.  A
\* leaveTrainingRoom on a disconnected socket sends nothing and buffers
\* nothing, so the send buffer never holds a leave_room that a later
\* reconnect would deliver; this for every wrapper variant and for the
\* unmount cleanups of the pages.
C18_LeaveOnlyWhileConnected ==
    \A i \in 1..Len(sendBuffer) : sendBuffer[i] # "leave_room"

\* C19: the log list of a mounted page is append-only.  Every step that
\* leaves the page mounted (a log event, a client note, starting or retrying
\* cleaning) leaves the previous list as a prefix of the new one.
C19_LogsAppendOnly ==
    [][ (Live /\ Live') =>
          /\ Len(logs') >= Len(logs)
          /\ SubSeq(logs', 1, Len(logs)) = logs ]_vars

\* C20: structured results are last-write-wins wholesale.  On a mounted
\* Analyze page analysisResults is the data of the most recent analysis_result
\* event that carried data, the snapshot's analysis_results if none arrived;
\* on a mounted Clean page cleaningReport is the data of the most recent
\* cleaning_report event that carried data, the snapshot's report if none
\* arrived, null if none arrived since the last reset.  The stored object is
\* the event's object, with no field of an older payload.
C20_LastWriteWins ==
    Live => /\ page = "Analyze" => analysisResults = hist.expected
            /\ page = "Clean" => cleaningReport = hist.expected

\* C21: the task type the Training page resolves for a snapshot is
\* user_config.task_type if present (a non-empty value), else
\* educational_summary.task_type if present, else regression if model_id_str
\* contains "regressor" or "regression", else classification.
C21_TaskTypeResolution ==
    LET d == details
        id == d.model_id_str
        has(sub) == /\ ~id.isNull
                    /\ \E i \in 1..Len(id.chars) :
                         /\ i + Len(sub) - 1 <= Len(id.chars)
                         /\ \A k \in 1..Len(sub) : id.chars[i + k - 1] = sub[k]
        reference ==
            CASE d.user_config_task_type \notin {NULL, ""} -> d.user_config_task_type
              [] d.user_config_task_type \in {NULL, ""}
                 /\ d.educational_summary_task_type \notin {NULL, ""}
                   -> d.educational_summary_task_type
              [] OTHER -> IF has(Str_regressor) \/ has(Str_regression)
                          THEN "regression" ELSE "classification"
    IN  lastOp.op = "FetchResolved" => taskType = reference

\* a snapshot without a configured task type, whose educational summary says
\* classification and whose model identifier says regressor
C21_Witness ==
    /\ lastOp.op = "FetchResolved"
    /\ details.user_config_task_type = NULL
    /\ details.educational_summary_task_type = "classification"
    /\ ~details.model_id_str.isNull
    /\ includes(details.model_id_str.chars, Str_regressor)
    /\ taskType = "classification"

\* C22: the step label of a metric event is its epoch if present, else its
\* estimator index, else its iteration index, else a running counter: a
\* metric event carrying none of the three gets a label no earlier point has,
\* and adds a point to the chart series.
C22_StepLabel ==
    [][ ( /\ lastOp'.op = "training_metric" /\ lastOp'.arg # "lost"
          /\ isMountedRef /\ taskType # NULL )
          => LET m == metrics'
             IN  /\ m.epoch # Nil => progress'.current_step = m.epoch
                 /\ (m.epoch = Nil /\ m.estimator # Nil) => progress'.current_step = m.estimator
                 /\ (m.epoch = Nil /\ m.estimator = Nil /\ m.iteration # Nil)
                      => progress'.current_step = m.iteration
                 /\ (m.epoch = Nil /\ m.estimator = Nil /\ m.iteration = Nil)
                      => /\ IndexOf(metricData.pLabels, progress'.current_step) = 0
                         /\ Len(metricData'.pLabels) = Len(metricData.pLabels) + 1 ]_vars

\* C23: for every metric event onMetric handles, the point at the event's
\* step label holds, in the primary series, the event's train / val accuracy
\* (classification) or train / val R2 (regression) and, in the secondary
\* series, its train / val loss (classification) or train / val RMSE
\* (regression); a field the event lacks is written as null, the step is not
\* skipped.
C23_PointWritten ==
    [][ ( /\ lastOp'.op = "training_metric" /\ lastOp'.arg # "lost"
          /\ isMountedRef /\ taskType \in {"classification", "regression"} )
          => LET m == metrics'
                 reg == taskType = "regression"
                 e == metricData'
                 i == IndexOf(e.pLabels, progress'.current_step)
             IN  /\ i > 0
                 /\ e.sLabels[i] = progress'.current_step
                 /\ e.pTrain[i] = IF reg THEN m.train_r2 ELSE m.train_accuracy
                 /\ e.pVal[i] = IF reg THEN m.val_r2 ELSE m.val_accuracy
                 /\ e.sTrain[i] = IF reg THEN m.train_rmse ELSE m.train_loss
                 /\ e.sVal[i] = IF reg THEN m.val_rmse ELSE m.val_loss ]_vars

\* a regression metric without train_r2 has been written at its label: null
\* for the primary train value, the event's value for the primary val value
C23_Witness ==
    /\ lastOp.op = "training_metric" /\ lastOp.arg # "lost"
    /\ taskType = "regression"
    /\ metrics.train_r2 = Nil /\ metrics.val_r2 # Nil
    /\ IndexOf(metricData.pLabels, progress.current_step) = 2
    /\ metricData.pTrain[2] = Nil
    /\ metricData.pVal[2] = metrics.val_r2

\* C24: a progress event is merged field by field into the progress record
\* (a field the event carries overwrites, a field it lacks keeps its prior
\* value), and the divisor of the rendered percentage is the total with a
\* total <= 0 treated as 1: it is never zero and never negative.
C24_ProgressMergeAndDivisor ==
    /\ [][ lastOp'.op = "training_progress" /\ lastOp'.arg = "merged"
             => \A f \in DOMAIN progress :
                   progress'[f] = IF prog'[f] # Nil THEN prog'[f] ELSE progress[f] ]_vars
    /\ [](page = "Training" /\ Live => barTotal(progress) > 0)

\* C25: room membership is kept across status changes.  While a page stays
\* mounted with a non-terminal status and its socket stays connected, a page
\* that is a member of the run's room (its join has been performed) remains a
\* member: no step, and in particular no re-run of the WebSocket effect after
\* a status change, leaves it outside the room.
C25_RoomMembershipKept ==
    [][ ( /\ Live /\ Live'
          /\ connected /\ connected'
          /\ inRoom
          /\ status' \notin Terminal )
          => inRoom' ]_vars

\* C26: on the Clean page no status_update changes the status once it is
\* CLEANING_SUCCESS, CLEANING_FAILED or FAILED; a status_update carrying any
\* value other than CLEANING, CLEANING_SUCCESS, CLEANING_FAILED, FAILED is
\* ignored; the only step that changes a CLEANING_FAILED status is
\* handleStartCleaning; and handleStartCleaning acts only when the status is
\* READY or CLEANING_FAILED.
C26_CleanStatusGuard ==
    [][ (page = "Clean" /\ Live) =>
          /\ ( lastOp'.op = "status_update"
               /\ status \in {"CLEANING_SUCCESS", "CLEANING_FAILED", "FAILED"} )
               => status' = status
          /\ ( lastOp'.op = "status_update"
               /\ lastOp'.arg \notin {"CLEANING", "CLEANING_SUCCESS", "CLEANING_FAILED",
                                      "FAILED"} )
               => status' = status
          /\ (status = "CLEANING_FAILED" /\ status' # status)
               => lastOp'.op = "handleStartCleaning"
          /\ lastOp'.op = "handleStartCleaning"
               => status \in {"READY", "CLEANING_FAILED"} ]_vars

(* ---- CleanData.jsx: the Apply Cleaning button pressed repeatedly ------ *)
\* a loaded Clean page (status READY) with the socket connected and the room
\* joined
InitClick == InitLog /\ page = "Clean"

\* handleStartCleaning with up to MaxClicks requests in flight
Clean_Click == handleStartCleaningUpTo(MaxClicks)

NextClick ==
    \/ Clean_Click
    \/ \E ok \in BOOLEAN : Clean_PostSettled(ok)
    \/ WebSocketEffect
    \/ \E s \in ServerStatus(page) : ServerEmitStatus(s)
    \/ \E log \in LogEvents : ServerEmitLog(log)

SpecClick == InitClick /\ [][NextClick]_vars

\* C27: double-click protection.  A POST .../clean request is issued only by
\* a transition of the status from READY or CLEANING_FAILED to CLEANING, so an
\* invocation of handleStartCleaning that finds the status already CLEANING
\* (the page has not re-rendered yet) issues no request.
C27_OnePostPerTransition ==
    [][ cleanPosts' > cleanPosts =>
          /\ status \in {"READY", "CLEANING_FAILED"}
          /\ status' = "CLEANING" ]_vars

\* C28: chart shape.  After every metric event the labels and both datasets
\* of the primary series and of the secondary series all have one length, the
\* primary and the secondary labels are equal, and no label occurs twice.
C28_ChartShape ==
    LET d == metricData
        n == Len(d.pLabels)
    IN  /\ Len(d.pTrain) = n
        /\ Len(d.pVal) = n
        /\ Len(d.sLabels) = n
        /\ Len(d.sTrain) = n
        /\ Len(d.sVal) = n
        /\ d.sLabels = d.pLabels
        /\ \A i, j \in 1..n : i # j => d.pLabels[i] # d.pLabels[j]

\* a metric event has been applied to a chart of three points, by
\* overwriting or by appending the third
C28_Witness ==
    /\ lastOp.op = "training_metric"
    /\ lastOp.arg \in {"upsert", "append"}
    /\ Len(metricData.pLabels) >= 3
    /\ Len(metricData.sVal) >= 3

\* C29: stale snapshot.  Each loader invocation issues one request and waits
\* for it with isFetchingDetails set; a response that arrives when no
\* invocation is waiting any more was issued by an invocation that has been
\* cleaned up, and it sets neither runDetails nor the status nor the logs.
C29_StaleSnapshotDropped ==
    [][ ( /\ lastOp'.op \in {"FetchResolved", "FetchRejected"}
          /\ ~isFetchingDetails )
          => UNCHANGED <<runDetails, status, logs>> ]_vars

(* ---- lib/auth.js useAuthStore, lib/api.js, the socket's connect_error -- *)
authFrame == <<lib, details, prog, page, pc, isMountedRef, pageVars, accVars, rendered,
               listeners, sockVars, reqVars, hist>>

\* create((set, get) => ({...})): the store as the module's evaluation leaves
\* it on a page load
initialAuth(storedToken, storedUser) ==
    [storedUser |-> storedUser, accessToken |-> storedToken, user |-> storedUser,
     isAuthenticated |-> FALSE, isLoading |-> FALSE, me |-> 0, leaving |-> FALSE]

\* the application has loaded, no page is mounted, the store has just been
\* created from a local storage that holds a token, a user, both or neither
InitAuth ==
    /\ page = "Training"
    /\ pc = "unmounted"
    /\ isMountedRef = FALSE
    /\ status = "LOADING_DETAILS"
    /\ isFetchingDetails = TRUE
    /\ fetchError = FALSE
    /\ runDetails = NULL
    /\ snapshotResults = NullPayload
    /\ taskType = NULL
    /\ logs = <<>>
    /\ analysisResults = NullPayload
    /\ cleaningReport = NullPayload
    /\ cleanedPreview = NULL
    /\ metrics = NoMetric
    /\ metricData = initialChartData
    /\ progress = initialProgress
    /\ cleaningStartedRef = FALSE
    /\ toastShownRef = [success |-> FALSE, error |-> FALSE]
    /\ toasts = 0
    /\ rendered = [isFetching |-> TRUE, fetchError |-> FALSE, runDetails |-> NULL,
                   taskType |-> NULL, status |-> "LOADING_DETAILS", progress |-> initialProgress]
    /\ listeners = <<>>
    /\ connected = FALSE
    /\ active = FALSE
    /\ sendBuffer = <<>>
    /\ inRoom = FALSE
    /\ received = ""
    /\ joinPending = 0
    /\ token \in BOOLEAN
    /\ gets = 0
    /\ posts = 0
    /\ cleanPosts = 0
    /\ analyzePosts = 0
    /\ lib = NoLib
    /\ details = NoDetails
    /\ prog = NoProgress
    /\ \E u \in BOOLEAN : auth = initialAuth(token, u)
    /\ hist = [fetchFailed |-> FALSE, earlyLabels |-> {}, retried |-> FALSE,
               expected |-> NullPayload]
    /\ lastOp = Op("create", "")

\* logout: both items removed, the store reset, window.location.href assigned
logout(a) ==
    [a EXCEPT !.storedUser = FALSE, !.user = FALSE, !.accessToken = FALSE,
              !.isAuthenticated = FALSE, !.isLoading = FALSE, !.leaving = TRUE]

\* initializeAuth: if (token && user) ... else ...
initializeAuth(a, storedToken) ==
    IF storedToken /\ a.storedUser
    THEN [a EXCEPT !.accessToken = TRUE, !.user = TRUE, !.isAuthenticated = TRUE,
                   !.isLoading = FALSE]
    ELSE [a EXCEPT !.accessToken = FALSE, !.user = FALSE, !.isAuthenticated = FALSE,
                   !.isLoading = FALSE]

\* a full page load (a reload by the user, or the navigation that an
\* assignment to window.location.href started): the requests in flight are
\* abandoned and the module is evaluated again
Auth_create ==
    /\ auth' = initialAuth(token, auth.storedUser)
    /\ lastOp' = Op("create", "")
    /\ UNCHANGED <<token, authFrame>>

\* main.jsx initializeApp and the effect of App
Auth_initializeAuth ==
    /\ auth' = initializeAuth(auth, token)
    /\ lastOp' = Op("initializeAuth", "")
    /\ UNCHANGED <<token, authFrame>>

\* login(token): jwtDecode throws on a malformed token, and the catch logs
\* out; otherwise the token is stored and loadUser issues GET /auth/me
Auth_login(wellFormed) ==
    /\ wellFormed => auth.me < MaxMe
    /\ IF wellFormed
       THEN /\ token' = TRUE
            /\ auth' = [auth EXCEPT !.accessToken = TRUE, !.isLoading = TRUE,
                                    !.me = @ + 1]
       ELSE /\ token' = FALSE
            /\ auth' = logout(auth)
    /\ lastOp' = Op("login", IF wellFormed THEN "ok" ELSE "malformed")
    /\ UNCHANGED authFrame

\* loadUser after its await: the profile is stored and the flag set, or the
\* catch logs out (a 401 has passed through the interceptor first, which
\* removes the same two items)
Auth_loadUserSettled(ok) ==
    /\ auth.me > 0
    /\ IF ok
       THEN /\ auth' = [auth EXCEPT !.me = @ - 1, !.storedUser = TRUE, !.user = TRUE,
                                    !.isAuthenticated = TRUE, !.isLoading = FALSE]
            /\ UNCHANGED token
       ELSE /\ auth' = logout([auth EXCEPT !.me = @ - 1])
            /\ token' = FALSE
    /\ lastOp' = Op("loadUser", IF ok THEN "ok" ELSE "error")
    /\ UNCHANGED authFrame

\* the Logout entry of the user menu
Auth_logout ==
    /\ auth' = logout(auth)
    /\ token' = FALSE
    /\ lastOp' = Op("logout", "")
    /\ UNCHANGED authFrame

\* api.interceptors.response on a 401 of any other request: both items
\* removed, window.location.href assigned; the store is not touched
Api_Unauthorized ==
    /\ token' = FALSE
    /\ auth' = [auth EXCEPT !.storedUser = FALSE, !.leaving = TRUE]
    /\ lastOp' = Op("interceptor", "401")
    /\ UNCHANGED authFrame

\* socket.on('connect_error') with an authentication error: both items
\* removed; neither the store nor the location is touched
Auth_connect_error ==
    /\ token' = FALSE
    /\ auth' = [auth EXCEPT !.storedUser = FALSE]
    /\ lastOp' = Op("connect_error", "Authentication error")
    /\ UNCHANGED authFrame

NextAuth ==
    \/ Auth_create
    \/ Auth_initializeAuth
    \/ \E wellFormed \in BOOLEAN : Auth_login(wellFormed)
    \/ \E ok \in BOOLEAN : Auth_loadUserSettled(ok)
    \/ Auth_logout
    \/ Api_Unauthorized
    \/ Auth_connect_error

SpecAuth == InitAuth /\ [][NextAuth]_vars

\* C30: the authentication state agrees with local storage.  Whenever
\* isAuthenticated is true, local storage holds an access token and a user;
\* after logout, after the interceptor's handling of a 401 and after the
\* socket's connect_error handler isAuthenticated is false; and initializeAuth
\* leaves isAuthenticated true exactly when both items are stored.
C30_AuthConsistent ==
    /\ [](auth.isAuthenticated => (token /\ auth.storedUser))
    /\ [][ lastOp'.op \in {"logout", "interceptor", "connect_error"}
             => ~auth'.isAuthenticated ]_vars
    /\ [][ lastOp'.op = "initializeAuth"
             => (auth'.isAuthenticated <=> (token /\ auth.storedUser)) ]_vars

====
